---------------------------- MODULE Spec2Model ----------------------------
(***************************************************************************)
(* A model of rpatchur's control plane: the request dispatcher of ui.rs,   *)
(* the commands / UI-updates channels created in main.rs, and the process  *)
(* launcher of process.rs.                                                 *)
(*                                                                         *)
(* Paths are sequences of one-character strings, so that to_lowercase,     *)
(* ends_with, contains and Path::join are computed character by character. *)
(* Every other string (arguments, messages, scripts) is a TLA+ string.     *)
(***************************************************************************)
EXTENDS Integers, Sequences, FiniteSets, TLC

VARIABLES
    os,                   \* build target: "windows" (cfg(windows)) or "unix"
    cwd,                  \* what std::env::current_dir() answers
    config,               \* WebViewUserData.patcher_config
    patching_in_progress, \* WebViewUserData.patching_in_progress (the busy flag)
    cmdQueue,             \* contents of the bounded commands channel (tx, rx)
    rxAlive,              \* the worker still owns the receiver rx
    uiQueue,              \* contents of the unbounded channel (ui_tx, ui_rx)
    proc,                 \* "running", "loop_exit" (ControlFlow::Exit), "dropped" or "exited"
    cacheFile,            \* whether <patcher name>.dat exists in the working directory
    worker,               \* the worker's position: "idle", "updating" or "done"
    last,                 \* what the last UI-thread step did (observation)
    sent,                 \* history: commands whose send returned Ok
    received,             \* history: commands the worker took from rx
    evaluated,            \* history: the UI updates the UI thread evaluated, in order
    startsSinceCompletion,\* history: StartUpdate submissions since the last completion status
    nDispatch,            \* messages dispatched since the initial state (bounded by MaxDispatch)
    nStatus,              \* status events dispatched so far (bounded by MaxStatus)
    ui,                   \* where the UI thread is inside a handler or the close path
    mutex                 \* the session-state mutex (Arc<Mutex<WebViewUserData>>) is locked

vars == <<os, cwd, config, patching_in_progress, cmdQueue, rxAlive, uiQueue, proc,
          cacheFile, worker, last, sent, received, evaluated,
          startsSinceCompletion, nDispatch, nStatus, ui, mutex>>

\* Bounds of the model.
MaxDispatch == 2
MaxStatus == 2

\* flume::bounded(32)
Capacity == 32

-----------------------------------------------------------------------------
(* Option and Result values *)

None == [some |-> FALSE]
Some(v) == [some |-> TRUE, v |-> v]

Ok(v) == [ok |-> TRUE, v |-> v]
Err(e) == [ok |-> FALSE, e |-> e]

Range(s) == {s[i] : i \in 1..Len(s)}

-----------------------------------------------------------------------------
(* Strings as character sequences (paths) *)

Upper == <<"A","B","C","D","E","F","G","H","I","J","K","L","M",
           "N","O","P","Q","R","S","T","U","V","W","X","Y","Z">>
Lower == <<"a","b","c","d","e","f","g","h","i","j","k","l","m",
           "n","o","p","q","r","s","t","u","v","w","x","y","z">>

\* char::to_lowercase on the ASCII letters; every other character is kept.
LowerOf == [c \in {Upper[i] : i \in 1..26} |-> Lower[CHOOSE i \in 1..26 : Upper[i] = c]]
LowerChar(c) == IF c \in DOMAIN LowerOf THEN LowerOf[c] ELSE c

\* str::to_lowercase
ToLowercase(s) == [i \in 1..Len(s) |-> LowerChar(s[i])]

\* str::ends_with
EndsWith(s, suffix) ==
    /\ Len(s) >= Len(suffix)
    /\ SubSeq(s, Len(s) - Len(suffix) + 1, Len(s)) = suffix

\* str::contains for a one-character pattern
Contains(s, c) == c \in Range(s)

Backslash == "\\"
Slash == "/"
\* A character that makes an OsStr ill-formed Unicode (an unpaired surrogate).
Surrogate == "<D800>"
\* The NUL character.
Nul == "<NUL>"

IsSep(c) == c = Backslash \/ c = Slash

\* OsStr::to_str / Path::to_str: None when the string is not valid Unicode.
ToStr(p) == IF Contains(p, Surrogate) THEN None ELSE Some(p)

UnwrapOr(opt, d) == IF opt.some THEN opt.v ELSE d

\* Windows path prefix (a drive letter and a colon).
PrefixLen(p) == IF Len(p) >= 2 /\ p[2] = ":" THEN 2 ELSE 0
HasPrefix(p) == PrefixLen(p) > 0
HasRoot(p) == Len(p) > PrefixLen(p) /\ IsSep(p[PrefixLen(p) + 1])
IsAbsolute(p) == HasPrefix(p) /\ HasRoot(p)

\* Path::join (PathBuf::push) on Windows: a path with a prefix replaces the
\* base, a rooted path keeps only the base's prefix, anything else is appended
\* after a separator.
Join(base, p) ==
    IF HasPrefix(p) THEN p
    ELSE IF HasRoot(p) THEN SubSeq(base, 1, PrefixLen(base)) \o p
    ELSE IF Len(base) > 0 /\ IsSep(base[Len(base)]) THEN base \o p
    ELSE base \o <<Backslash>> \o p

-----------------------------------------------------------------------------
(* process.rs: the launcher *)

\* mod windows, to_u16s: an error when the string holds a NUL.
ToU16s(s) == IF Contains(s, Nul) THEN Err("NUL") ELSE Ok(s)

\* The fold of start_executable: every argument preceded by one space.
RECURSIVE FoldArguments(_)
FoldArguments(args) ==
    IF args = <<>> THEN ""
    ELSE FoldArguments(SubSeq(args, 1, Len(args) - 1)) \o " " \o args[Len(args)]

cmd_exe == <<"c","m","d",".","e","x","e">>
dot_bat == <<".","b","a","t">>
dot_cmd == <<".","c","m","d">>

\* One ShellExecuteExW request; `accept` is the OS's answer (its BOOL result).
ShellCall(verb, file, parameter) ==
    [verb |-> verb, file |-> file, parameter |-> parameter]

\* What a launcher function did: the requests handed to the OS (ShellExecuteExW
\* on Windows, Command::spawn elsewhere) and the Result<bool> it returned.
Outcome(calls, result) == [calls |-> calls, result |-> result]

\* lpFile of win32_spawn_process_open. All three branches of the source are
\* kept: the two non-cmd.exe branches compute the same join.
OpenFile(path) ==
    LET path_str == UnwrapOr(ToStr(path), <<>>) IN
    IF ToLowercase(path_str) = cmd_exe THEN ToU16s(path_str)
    ELSE IF Contains(path_str, Backslash) \/ Contains(path_str, Slash)
    THEN IF ~cwd.ok THEN Err("current_dir")
         ELSE ToU16s(UnwrapOr(ToStr(Join(cwd.v, path)), <<>>))
    ELSE IF ~cwd.ok THEN Err("current_dir")
         ELSE ToU16s(UnwrapOr(ToStr(Join(cwd.v, path)), <<>>))

\* A faulty variant of RunasFile that joins every path, cmd.exe included, to
\* the working directory; C9 has to reject it.
RunasFileNoException(path) ==
    IF ~cwd.ok THEN Err("current_dir")
    ELSE ToU16s(UnwrapOr(ToStr(Join(cwd.v, path)), <<>>))
\* lpFile of win32_spawn_process_runas.
RunasFile(path) ==
    LET path_str == UnwrapOr(ToStr(path), <<>>) IN
    IF \/ ToLowercase(path_str) = cmd_exe
       \/ Contains(path_str, Backslash)
       \/ Contains(path_str, Slash)
    THEN IF ToLowercase(path_str) = cmd_exe THEN ToU16s(path_str)
         ELSE IF ~cwd.ok THEN Err("current_dir")
              ELSE ToU16s(UnwrapOr(ToStr(Join(cwd.v, path)), <<>>))
    ELSE IF ~cwd.ok THEN Err("current_dir")
         ELSE ToU16s(UnwrapOr(ToStr(Join(cwd.v, path)), <<>>))

\* windows::win32_spawn_process_open: Err when a conversion fails, otherwise
\* one "open" request whose BOOL answer `accept` becomes the Ok value.
Win32SpawnProcessOpen(path, parameter, accept) ==
    LET exe_path == OpenFile(path) IN
    IF ~exe_path.ok THEN Outcome(<<>>, Err(exe_path.e))
    ELSE Outcome(<<ShellCall("open", exe_path.v, parameter)>>, Ok(accept))

\* windows::win32_spawn_process_runas
Win32SpawnProcessRunas(path, parameter, accept) ==
    LET exe_path == RunasFile(path) IN
    IF ~exe_path.ok THEN Outcome(<<>>, Err(exe_path.e))
    ELSE Outcome(<<ShellCall("runas", exe_path.v, parameter)>>, Ok(accept))

\* A faulty variant of IsBatchFile that compares the extension without
\* to_lowercase; C8 has to reject it.
IsBatchFileCaseSensitive(exe_path) ==
    EndsWith(exe_path, dot_bat) \/ EndsWith(exe_path, dot_cmd)
\* is_batch_file of start_executable
IsBatchFile(exe_path) ==
    \/ EndsWith(ToLowercase(exe_path), dot_bat)
    \/ EndsWith(ToLowercase(exe_path), dot_cmd)

\* start_executable, cfg(windows)
StartExecutableWindows(exe_path, exe_arguments, accept) ==
    IF IsBatchFile(exe_path)
    THEN IF ~cwd.ok THEN Outcome(<<>>, Err("current_dir"))
         ELSE LET abs_bat_path == Join(cwd.v, exe_path)
                  abs_bat_path_str == UnwrapOr(ToStr(abs_bat_path), exe_path)
              IN  Win32SpawnProcessOpen(abs_bat_path_str,
                                        FoldArguments(exe_arguments), accept)
    ELSE Win32SpawnProcessRunas(exe_path, FoldArguments(exe_arguments), accept)

\* start_executable, cfg(not(windows)): Command::new(path).args(..).spawn();
\* `accept` is whether the OS accepts the spawn: Ok(child) is mapped to
\* Ok(true), the io::Error of a rejected spawn is returned by `?`.
StartExecutableUnix(exe_path, exe_arguments, accept) ==
    Outcome(<<[verb |-> "spawn", file |-> exe_path, argv |-> exe_arguments]>>,
            IF accept THEN Ok(TRUE) ELSE Err("spawn"))

StartExecutable(exe_path, exe_arguments, accept) ==
    IF os = "windows"
    THEN StartExecutableWindows(exe_path, exe_arguments, accept)
    ELSE StartExecutableUnix(exe_path, exe_arguments, accept)

-----------------------------------------------------------------------------
(* serde_json values and the two parameter structures of ui.rs *)

JNull == [kind |-> "Null"]
JNumber(n) == [kind |-> "Number", n |-> n]
JString(s) == [kind |-> "String", s |-> s]
JObject(map) == [kind |-> "Object", map |-> map]

\* Value's Index<&str>: Null unless the value is an object that has the key.
Index(v, key) ==
    IF v.kind = "Object" /\ key \in DOMAIN v.map THEN v.map[key] ELSE JNull

\* Value::as_str
AsStr(v) == IF v.kind = "String" THEN Some(v.s) ELSE None

\* The non-vocabulary messages of the model.
msg_word == "Play"
msg_truncated == "{\"function\":"
msg_number == "42"
msg_no_function == "{}"
msg_function_number == "{\"function\":7}"
msg_unknown == "{\"function\":\"logout\"}"
msg_login_no_params == "{\"function\":\"login\"}"
msg_login_no_password == "{\"function\":\"login\",\"parameters\":{\"login\":\"alice\"}}"
msg_login_bad_type == "{\"function\":\"login\",\"parameters\":{\"login\":\"alice\",\"password\":5}}"
msg_login_alice == "{\"function\":\"login\",\"parameters\":{\"login\":\"alice\",\"password\":\"secret\"}}"
msg_login_bob == "{\"function\":\"login\",\"parameters\":{\"login\":\"bob\",\"password\":\"\"}}"
msg_open_url == "{\"function\":\"open_url\",\"parameters\":{\"url\":\"http://x\"}}"
msg_open_url_no_params == "{\"function\":\"open_url\"}"

\* serde_json::from_str on the messages of the model: the value each text
\* denotes, or a syntax error.
FromStr(request) ==
    CASE request = msg_number -> Ok(JNumber(42))
      [] request = msg_no_function -> Ok(JObject(<<>>))
      [] request = msg_function_number ->
            Ok(JObject([function |-> JNumber(7)]))
      [] request = msg_unknown ->
            Ok(JObject([function |-> JString("logout")]))
      [] request = msg_login_no_params ->
            Ok(JObject([function |-> JString("login")]))
      [] request = msg_login_no_password ->
            Ok(JObject([function |-> JString("login"),
                        parameters |-> JObject([login |-> JString("alice")])]))
      [] request = msg_login_bad_type ->
            Ok(JObject([function |-> JString("login"),
                        parameters |-> JObject([login |-> JString("alice"),
                                                password |-> JNumber(5)])]))
      [] request = msg_login_alice ->
            Ok(JObject([function |-> JString("login"),
                        parameters |-> JObject([login |-> JString("alice"),
                                                password |-> JString("secret")])]))
      [] request = msg_login_bob ->
            Ok(JObject([function |-> JString("login"),
                        parameters |-> JObject([login |-> JString("bob"),
                                                password |-> JString("")])]))
      [] request = msg_open_url ->
            Ok(JObject([function |-> JString("open_url"),
                        parameters |-> JObject([url |-> JString("http://x")])]))
      [] request = msg_open_url_no_params ->
            Ok(JObject([function |-> JString("open_url")]))
      [] OTHER -> Err("syntax")

\* serde_json::from_value::<LoginParameters>: an object with string fields
\* login and password.
FromValueLogin(v) ==
    IF /\ v.kind = "Object"
       /\ {"login", "password"} \subseteq DOMAIN v.map
       /\ v.map["login"].kind = "String"
       /\ v.map["password"].kind = "String"
    THEN Ok([login |-> v.map["login"].s, password |-> v.map["password"].s])
    ELSE Err("invalid type or missing field")

\* serde_json::from_value::<OpenUrlParameters>
FromValueOpenUrl(v) ==
    IF /\ v.kind = "Object"
       /\ "url" \in DOMAIN v.map
       /\ v.map["url"].kind = "String"
    THEN Ok([url |-> v.map["url"].s])
    ELSE Err("invalid type or missing field")

-----------------------------------------------------------------------------
(* ui.rs: the handlers.  A handler is computed as its effect: the launcher  *)
(* calls it makes, the lines it logs at warn or error level, the commands  *)
(* it sends, and whether it calls std::process::exit.  `env` holds the     *)
(* answers of the environment the handler meets.                           *)

StartUpdate == [cmd |-> "StartUpdate"]
CancelUpdate == [cmd |-> "CancelUpdate"]
ApplyPatch(path) == [cmd |-> "ApplyPatch", path |-> path]
Quit == [cmd |-> "Quit"]

NoEffect ==
    [launched |-> <<>>,   \* start_executable calls: <<[path, arguments, result]>>
     calls |-> <<>>,      \* requests handed to the OS by those calls
     logs |-> <<>>,       \* log::warn! and log::error! lines, by level
     commands |-> <<>>,   \* commands handed to patching_thread_tx.send
     dialog |-> FALSE,    \* tfd::open_file_dialog was opened
     picked |-> None,     \* what the dialog answered, when it was opened
     opened |-> <<>>,     \* URLs handed to open::that
     removes |-> FALSE,   \* fs::remove_file deleted the cache file
     exits |-> FALSE,     \* std::process::exit(0) was called
     guards |-> <<>>]     \* user_data.lock() calls and drops of their guard, in order

\* The effect of having locked the session state once and dropped the guard.
Guarded == [NoEffect EXCEPT !.guards = <<"lock", "drop">>]

\* A start_executable call followed by the match on its result that
\* start_game_client, handle_setup and handle_repair share: exit when the
\* launch succeeded and exit_on_success is set; log at `rejected` level (if
\* any) on Ok(false) and at the `failed` levels on Err.
Launch(eff, exe, arguments, exit_on_success, rejected, failed, env) ==
    LET out == StartExecutable(exe, arguments, env.accept)
        base == [eff EXCEPT
                   !.launched = Append(@, [path |-> exe, arguments |-> arguments,
                                          result |-> out.result]),
                   !.calls = @ \o out.calls]
    IN  IF out.result.ok
        THEN IF out.result.v
             THEN [base EXCEPT !.exits = exit_on_success]
             ELSE [base EXCEPT !.logs = @ \o rejected]
        ELSE [base EXCEPT !.logs = @ \o failed]

\* start_game_client
StartGameClient(eff, client_arguments, env) ==
    Launch([eff EXCEPT !.guards = @ \o <<"lock", "drop">>],
           config.play.path, client_arguments,
           UnwrapOr(config.play.exit_on_success, TRUE), <<>>, <<"warn">>, env)

\* A faulty variant of HandlePlay that forgets the configured arguments; C6
\* has to reject it.
HandlePlayNoArguments(env) ==
    StartGameClient(Guarded, <<>>, env)
\* handle_play
HandlePlay(env) ==
    StartGameClient(Guarded, config.play.arguments, env)

\* A faulty variant of HandleSetup whose exit_on_success defaults to true;
\* C16 has to reject it.
HandleSetupExitsByDefault(env) ==
    Launch(Guarded,
           config.setup.path, config.setup.arguments,
           UnwrapOr(config.setup.exit_on_success, TRUE), <<>>, <<"warn">>, env)
\* handle_setup
HandleSetup(env) ==
    Launch(Guarded,
           config.setup.path, config.setup.arguments,
           UnwrapOr(config.setup.exit_on_success, FALSE), <<>>, <<"warn">>, env)

\* A faulty variant of HandleRepair that starts the setup tool when there is
\* no repair section; C20 has to reject it.
HandleRepairFallsBack(env) ==
    IF config.repair.some
    THEN Launch(Guarded,
                config.repair.v.path, config.repair.v.arguments,
                UnwrapOr(config.repair.v.exit_on_success, FALSE),
                <<"warn">>, <<"error", "error">>, env)
    ELSE Launch(Guarded,
                config.setup.path, config.setup.arguments, FALSE,
                <<"warn">>, <<"error", "error">>, env)
\* handle_repair
HandleRepair(env) ==
    IF config.repair.some
    THEN Launch(Guarded,
                config.repair.v.path, config.repair.v.arguments,
                UnwrapOr(config.repair.v.exit_on_success, FALSE),
                <<"warn">>, <<"error", "error">>, env)
    ELSE [Guarded EXCEPT !.logs = <<"error", "error">>]

\* A variant of set_patch_in_progress that stores the value in the flag;
\* C22 has to reject it.
SetPatchInProgressStores(busy, value) == value
\* UiController::set_patch_in_progress: the body is empty, the flag is kept.
SetPatchInProgress(busy, value) == busy

\* handle_start_update
HandleStartUpdate(env) ==
    IF patching_in_progress
    THEN [Guarded EXCEPT !.logs = <<"warn">>]
    ELSE [Guarded EXCEPT !.commands = <<StartUpdate>>]

\* A faulty variant of HandleCancelUpdate that only cancels an update that
\* was started; C17 has to reject it.
HandleCancelUpdateIfStarted(env) ==
    IF startsSinceCompletion = 0 THEN Guarded
    ELSE [Guarded EXCEPT !.commands = <<CancelUpdate>>]
\* handle_cancel_update
HandleCancelUpdate(env) ==
    [Guarded EXCEPT !.commands = <<CancelUpdate>>]

\* handle_reset_cache: env.name_ok is whether get_patcher_name() answers Ok,
\* env.remove_ok whether the OS lets an existing file be removed.
HandleResetCache(env) ==
    IF ~env.name_ok THEN NoEffect
    ELSE IF cacheFile /\ env.remove_ok THEN [NoEffect EXCEPT !.removes = TRUE]
    ELSE [NoEffect EXCEPT !.logs = <<"warn">>]

\* A faulty variant of HandleManualPatch without the busy check; C18 has to
\* reject it.
HandleManualPatchIgnoresBusy(env) ==
    IF env.dialog.some
    THEN [Guarded EXCEPT !.dialog = TRUE, !.picked = env.dialog,
                          !.commands = <<ApplyPatch(env.dialog.v)>>]
    ELSE [Guarded EXCEPT !.dialog = TRUE]
\* handle_manual_patch: env.dialog is the file dialog's answer.
HandleManualPatch(env) ==
    IF patching_in_progress
    THEN [Guarded EXCEPT !.logs = <<"warn">>]
    ELSE IF env.dialog.some
    THEN [Guarded EXCEPT !.dialog = TRUE, !.picked = env.dialog,
                          !.commands = <<ApplyPatch(env.dialog.v)>>]
    ELSE [Guarded EXCEPT !.dialog = TRUE]

\* A faulty variant of HandleLogin that puts the login before the password
\* token; C7 has to reject it.
HandleLoginSwapped(parameters, env) ==
    LET result == FromValueLogin(parameters) IN
    IF ~result.ok THEN [NoEffect EXCEPT !.logs = <<"error">>]
    ELSE StartGameClient(Guarded,
            <<result.v.login, "-t:" \o result.v.password, "server">>
                \o config.play.arguments, env)
\* A faulty variant of HandleLogin without drop(data): its guard is still
\* alive when start_game_client locks; C23 has to reject it.
HandleLoginKeepsGuard(parameters, env) ==
    LET result == FromValueLogin(parameters) IN
    IF ~result.ok THEN [NoEffect EXCEPT !.logs = <<"error">>]
    ELSE LET play_arguments ==
                 <<"-t:" \o result.v.password, result.v.login, "server">>
                     \o config.play.arguments
         IN  StartGameClient([NoEffect EXCEPT !.guards = <<"lock">>],
                             play_arguments, env)
\* handle_login
HandleLogin(parameters, env) ==
    LET result == FromValueLogin(parameters) IN
    IF ~result.ok THEN [NoEffect EXCEPT !.logs = <<"error">>]
    ELSE LET play_arguments ==
                 <<"-t:" \o result.v.password, result.v.login, "server">>
                     \o config.play.arguments
         IN  StartGameClient(Guarded, play_arguments, env)

\* handle_open_url: env.open is what open::that answers: "ok" (exit status
\* success), "code" (a non-zero exit code), "signal" (failure without a code)
\* or "err".
HandleOpenUrl(parameters, env) ==
    LET result == FromValueOpenUrl(parameters) IN
    IF ~result.ok THEN [NoEffect EXCEPT !.logs = <<"error">>]
    ELSE [NoEffect EXCEPT
            !.opened = <<result.v.url>>,
            !.logs = IF env.open \in {"code", "err"} THEN <<"error">> ELSE <<>>]

\* A faulty variant of HandleJsonRequest that unwraps the parse result, so
\* that a syntax error ends the process; C4 has to reject it.
HandleJsonRequestPanics(request, env) ==
    LET result == FromStr(request) IN
    IF ~result.ok THEN [NoEffect EXCEPT !.exits = TRUE]
    ELSE LET json_req == result.v
             function_name == AsStr(Index(json_req, "function"))
         IN  IF function_name.some
             THEN LET function_params == Index(json_req, "parameters") IN
                  CASE function_name.v = "login" ->
                           HandleLogin(function_params, env)
                    [] function_name.v = "open_url" ->
                           HandleOpenUrl(function_params, env)
                    [] OTHER -> [NoEffect EXCEPT !.logs = <<"error">>]
             ELSE NoEffect
\* handle_json_request
HandleJsonRequest(request, env) ==
    LET result == FromStr(request) IN
    IF ~result.ok THEN [NoEffect EXCEPT !.logs = <<"error">>]
    ELSE LET json_req == result.v
             function_name == AsStr(Index(json_req, "function"))
         IN  IF function_name.some
             THEN LET function_params == Index(json_req, "parameters") IN
                  CASE function_name.v = "login" ->
                           HandleLogin(function_params, env)
                    [] function_name.v = "open_url" ->
                           HandleOpenUrl(function_params, env)
                    [] OTHER -> [NoEffect EXCEPT !.logs = <<"error">>]
             ELSE NoEffect

Vocabulary ==
    {"play", "setup", "repair", "exit", "start_update", "cancel_update",
     "reset_cache", "manual_patch"}

\* A faulty variant of HandleMessage whose `exit` tells the worker to quit
\* before the process ends; C15 has to reject it.
HandleMessageExitQuits(message, env) ==
    CASE message = "play" -> HandlePlay(env)
      [] message = "setup" -> HandleSetup(env)
      [] message = "repair" -> HandleRepair(env)
      [] message = "exit" -> [NoEffect EXCEPT !.commands = <<Quit>>,
                                              !.exits = TRUE]
      [] message = "start_update" -> HandleStartUpdate(env)
      [] message = "cancel_update" -> HandleCancelUpdate(env)
      [] message = "reset_cache" -> HandleResetCache(env)
      [] message = "manual_patch" -> HandleManualPatch(env)
      [] OTHER -> HandleJsonRequest(message, env)
\* handle_message
HandleMessage(message, env) ==
    CASE message = "play" -> HandlePlay(env)
      [] message = "setup" -> HandleSetup(env)
      [] message = "repair" -> HandleRepair(env)
      [] message = "exit" -> [NoEffect EXCEPT !.exits = TRUE]
      [] message = "start_update" -> HandleStartUpdate(env)
      [] message = "cancel_update" -> HandleCancelUpdate(env)
      [] message = "reset_cache" -> HandleResetCache(env)
      [] message = "manual_patch" -> HandleManualPatch(env)
      [] OTHER -> HandleJsonRequest(message, env)

-----------------------------------------------------------------------------
(* The inputs of the model *)

tool_bat == <<"t", "o", "o", "l", ".", "b", "a", "t">>
TOOL_BAT == <<"T", "O", "O", "L", ".", "B", "A", "T">>
run_Cmd == <<"r", "u", "n", ".", "C", "m", "d">>
tool_exe == <<"t", "o", "o", "l", ".", "e", "x", "e">>
CMD_EXE == <<"C", "M", "D", ".", "E", "X", "E">>
Cmd_exe == <<"C", "m", "d", ".", "e", "x", "e">>
bin_x_exe == <<"b", "i", "n", Backslash, "x", ".", "e", "x", "e">>
bin_s_bat == <<"b", "i", "n", "/", "s", ".", "b", "a", "t">>
abs_t_exe == <<"C", ":", Backslash, "t", ".", "e", "x", "e">>
abs_t_bat == <<"C", ":", Backslash, "t", ".", "b", "a", "t">>
drive_t_exe == <<"D", ":", "t", ".", "e", "x", "e">>
rooted_t_bat == <<Backslash, "t", ".", "b", "a", "t">>
nul_exe == <<"a", Nul, ".", "e", "x", "e">>
bat == <<"b", "a", "t">>
x_bat_exe == <<"x", ".", "b", "a", "t", ".", "e", "x", "e">>
xcmd_exe == <<"x", "c", "m", "d", ".", "e", "x", "e">>
client_exe == <<"c", "l", "i", "e", "n", "t", ".", "e", "x", "e">>
setup_exe == <<"s", "e", "t", "u", "p", ".", "e", "x", "e">>
cwd_unix == <<Slash, "g">>
cwd_game == <<"C", ":", Backslash, "g">>
cwd_root == <<"C", ":", Backslash>>
cwd_ill == <<"C", ":", Backslash, Surrogate>>

\* Paths handed to the launcher functions in SpecLaunch.
LaunchPaths ==
    {tool_bat, TOOL_BAT, run_Cmd, tool_exe, cmd_exe, CMD_EXE, Cmd_exe,
     bin_x_exe, bin_s_bat, abs_t_exe, abs_t_bat, drive_t_exe, rooted_t_bat,
     nul_exe, bat, x_bat_exe, xcmd_exe}

ArgumentLists == {<<>>, <<"-x", "-w">>}

\* PatcherConfiguration: the fields the handlers read (play, setup and the
\* optional repair section, each with path, arguments and exit_on_success).
Section(path, arguments, exit_on_success) ==
    [path |-> path, arguments |-> arguments, exit_on_success |-> exit_on_success]

Configs ==
    {[play |-> Section(client_exe, <<>>, None),
      setup |-> Section(setup_exe, <<"/s">>, None),
      repair |-> None],
     [play |-> Section(client_exe, <<"-x", "-w">>, Some(FALSE)),
      setup |-> Section(setup_exe, <<>>, Some(TRUE)),
      repair |-> Some(Section(cmd_exe, <<"/c", "fix.bat">>, None))],
     [play |-> Section(tool_bat, <<"-x">>, Some(TRUE)),
      setup |-> Section(setup_exe, <<"/s">>, Some(FALSE)),
      repair |-> Some(Section(tool_exe, <<>>, Some(TRUE)))],
     [play |-> Section(tool_bat, <<"-w", "-x">>, None),
      setup |-> Section(setup_exe, <<"/s">>, None),
      repair |-> None]}

\* What std::env::current_dir() can answer.
WorkingDirs == {Ok(cwd_game), Err("io")}
LaunchWorkingDirs == {Ok(cwd_game), Ok(cwd_root), Ok(cwd_ill), Err("io")}

EnvBase ==
    [accept |-> TRUE, dialog |-> None, name_ok |-> TRUE, remove_ok |-> TRUE,
     open |-> "ok"]

LoginMessages ==
    {msg_login_no_params, msg_login_no_password, msg_login_bad_type,
     msg_login_alice, msg_login_bob}

Messages ==
    Vocabulary \cup LoginMessages \cup
    {msg_word, msg_truncated, msg_number, msg_no_function,
     msg_function_number, msg_unknown, msg_open_url, msg_open_url_no_params}

\* The answers of the environment that the handler of `message` can meet.
EnvFor(message) ==
    CASE message \in {"play", "setup", "repair"} \cup LoginMessages ->
             {[EnvBase EXCEPT !.accept = a] : a \in BOOLEAN}
      [] message = "manual_patch" ->
             {[EnvBase EXCEPT !.dialog = d] : d \in {None, Some("a.thor")}}
      [] message = "reset_cache" ->
             {[EnvBase EXCEPT !.name_ok = n, !.remove_ok = r] :
                 n \in BOOLEAN, r \in BOOLEAN}
      [] message = msg_open_url ->
             {[EnvBase EXCEPT !.open = o] : o \in {"ok", "code", "signal", "err"}}
      [] OTHER -> {EnvBase}

-----------------------------------------------------------------------------
(* The channels *)

\* A faulty channel that puts a new command in front of the waiting ones;
\* C1 has to reject it.
SendFront(queue, c) == <<c>> \o queue
\* flume Sender::send / try_send when the receiver lives and there is room:
\* the command goes to the back of the queue.
Send(queue, c) == Append(queue, c)

\* A faulty channel on which a send never waits; C11 has to reject it.
SendNeverWaits == TRUE
\* A blocking send returns at once when the receiver is gone (Err) or when
\* the channel has room (Ok); otherwise the sender waits.
CanSend == ~rxAlive \/ Len(cmdQueue) < Capacity

\* A faulty channel that takes commands after the receiver is gone; C19 has
\* to reject it.
AcceptedAlways(commands) == commands
\* The commands of `commands` whose send returns Ok.
Accepted(commands) == IF rxAlive THEN commands ELSE <<>>

RECURSIVE SendAll(_, _)
SendAll(queue, commands) ==
    IF commands = <<>> THEN queue
    ELSE SendAll(Send(queue, Head(commands)), Tail(commands))

CountStarts(commands) ==
    Cardinality({i \in 1..Len(commands) : commands[i] = StartUpdate})

\* PatchingStatus
Ready == [status |-> "Ready"]
StatusError(msg) == [status |-> "Error", msg |-> msg]
DownloadInProgress(nb_downloaded, nb_total, bytes_per_sec) ==
    [status |-> "DownloadInProgress", nb_downloaded |-> nb_downloaded,
     nb_total |-> nb_total, bytes_per_sec |-> bytes_per_sec]
InstallationInProgress(nb_installed, nb_total) ==
    [status |-> "InstallationInProgress", nb_installed |-> nb_installed,
     nb_total |-> nb_total]
ManualPatchApplied(name) == [status |-> "ManualPatchApplied", name |-> name]

Statuses == {Ready, DownloadInProgress(1, 2, 300)}

\* The script of UiController::dispatch_patching_status.
Script(status) ==
    CASE status.status = "Ready" -> "patchingStatusReady()"
      [] status.status = "Error" ->
            "patchingStatusError(\"" \o status.msg \o "\")"
      [] status.status = "DownloadInProgress" ->
            "patchingStatusDownloading(" \o ToString(status.nb_downloaded)
                \o ", " \o ToString(status.nb_total)
                \o ", " \o ToString(status.bytes_per_sec) \o ")"
      [] status.status = "InstallationInProgress" ->
            "patchingStatusInstalling(" \o ToString(status.nb_installed)
                \o ", " \o ToString(status.nb_total) \o ")"
      [] status.status = "ManualPatchApplied" ->
            "patchingStatusPatchApplied(\"" \o status.name \o "\")"

EvaluateScript(script) == [ui |-> "EvaluateScript", script |-> script]

\* The statuses with which the Patch Engine ends an update lifecycle.
IsCompletion(status) == status.status \in {"Ready", "Error", "ManualPatchApplied"}

-----------------------------------------------------------------------------
(* Observation of the last UI-thread step *)

\* `input` is the path given to a launcher function or, for the close path,
\* the UI updates evaluated in that loop iteration.
Observed(op, msg, input, eff, submitted) ==
    [op |-> op, msg |-> msg, input |-> input,
     launched |-> eff.launched, calls |-> eff.calls, logs |-> eff.logs,
     commands |-> eff.commands, submitted |-> submitted,
     dialog |-> eff.dialog, picked |-> eff.picked, opened |-> eff.opened, removes |-> eff.removes,
     exits |-> eff.exits, guards |-> eff.guards]

\* The UI thread is between two handlers: nothing is running and the mutex
\* is free.
Idle == [at |-> "idle", msg |-> "", eff |-> NoEffect]

-----------------------------------------------------------------------------
(* Initial states *)

\* The state once `queue` was submitted and the worker has taken nothing yet.
InitAfter(queue) ==
    /\ os \in {"windows", "unix"}
    /\ patching_in_progress = FALSE
    /\ cmdQueue = queue
    /\ rxAlive = TRUE
    /\ uiQueue = <<>>
    /\ proc = "running"
    /\ worker = "idle"
    /\ last = Observed("init", "", <<>>, NoEffect, <<>>)
    /\ sent = queue
    /\ received = <<>>
    /\ evaluated = <<>>
    /\ startsSinceCompletion = CountStarts(queue)
    /\ nDispatch = 0
    /\ nStatus = 0
    /\ ui = Idle
    /\ mutex = FALSE

InitCommon == InitAfter(<<>>)

\* main.rs, run: the configuration is loaded, the channels and the session
\* state are created, the worker thread is started.
Init ==
    /\ InitCommon
    /\ cwd \in (IF os = "windows" THEN WorkingDirs ELSE {Ok(cwd_unix)})
    /\ config \in Configs
    /\ cacheFile \in BOOLEAN

-----------------------------------------------------------------------------
(* The UI thread *)

\* The IPC handler of build_webview: handle_message(message) runs to its end.
\* A handler that sends waits until the send can return.
Dispatch(message, env) ==
    /\ proc = "running"
    /\ nDispatch < MaxDispatch
    /\ LET eff == HandleMessage(message, env)
           submitted == Accepted(eff.commands)
       IN  /\ eff.commands # <<>> => CanSend
           /\ cmdQueue' = SendAll(cmdQueue, submitted)
           /\ sent' = sent \o submitted
           /\ startsSinceCompletion' = startsSinceCompletion + CountStarts(submitted)
           /\ cacheFile' = (cacheFile /\ ~eff.removes)
           /\ proc' = IF eff.exits THEN "exited" ELSE proc
           /\ last' = Observed("dispatch", message, <<>>, eff, submitted)
    /\ nDispatch' = nDispatch + 1
    /\ UNCHANGED <<os, cwd, config, patching_in_progress, rxAlive, uiQueue,
                   worker, received, evaluated, nStatus, ui, mutex>>

DispatchMessage == \E message \in Messages : \E env \in EnvFor(message) :
                       Dispatch(message, env)

\* A faulty loop that handles the event without evaluating what is pending;
\* C24 has to reject it.
DrainNone(queue) == <<>>
\* A faulty drain that takes one update and forgets the others; C12 has to
\* reject it.
DrainOne(queue) == IF queue = <<>> THEN <<>> ELSE <<Head(queue)>>
\* while let Ok(ui_cmd) = ui_rx.try_recv(): the updates are taken one by one
\* from the front until the channel is empty.
RECURSIVE DrainAll(_)
DrainAll(queue) ==
    IF queue = <<>> THEN <<>> ELSE <<Head(queue)>> \o DrainAll(Tail(queue))

\* One call of the closure given to event_loop.run: every pending UI update is
\* evaluated, then the event is matched.  CloseRequested sends Quit and sets
\* ControlFlow::Exit.
LoopIteration(event) ==
    /\ proc = "running"
    /\ evaluated' = evaluated \o DrainAll(uiQueue)
    /\ uiQueue' = <<>>
    /\ IF event = "CloseRequested"
       THEN /\ CanSend
            /\ cmdQueue' = SendAll(cmdQueue, Accepted(<<Quit>>))
            /\ sent' = sent \o Accepted(<<Quit>>)
            /\ proc' = "loop_exit"
            /\ last' = Observed("close", "", DrainAll(uiQueue),
                                [Guarded EXCEPT !.commands = <<Quit>>],
                                Accepted(<<Quit>>))
       ELSE UNCHANGED <<cmdQueue, sent, proc, last>>
    /\ UNCHANGED <<os, cwd, config, patching_in_progress, rxAlive, cacheFile,
                   worker, received, startsSinceCompletion, nDispatch, nStatus,
                   ui, mutex>>

WindowEvent == \E event \in {"CloseRequested", "Other"} : LoopIteration(event)

\* Drop for WebViewUserData: try_send(Quit), which never waits: the command
\* is enqueued when the receiver lives and the channel has room.
DropUserData ==
    /\ proc = "loop_exit"
    /\ LET submitted == IF rxAlive /\ Len(cmdQueue) < Capacity
                        THEN <<Quit>> ELSE <<>>
       IN  /\ cmdQueue' = SendAll(cmdQueue, submitted)
           /\ sent' = sent \o submitted
           /\ last' = Observed("drop", "", <<>>,
                               [NoEffect EXCEPT !.commands = <<Quit>>], submitted)
    /\ proc' = "dropped"
    /\ UNCHANGED <<os, cwd, config, patching_in_progress, rxAlive, uiQueue,
                   cacheFile, worker, received, evaluated,
                   startsSinceCompletion, nDispatch, nStatus, ui, mutex>>

\* event_loop.run never returns: once the loop has exited the process ends,
\* whether or not the session state was dropped first.
ProcessExit ==
    /\ proc \in {"loop_exit", "dropped"}
    /\ proc' = "exited"
    /\ UNCHANGED <<os, cwd, config, patching_in_progress, cmdQueue, rxAlive,
                   uiQueue, cacheFile, worker, last, sent, received, evaluated,
                   startsSinceCompletion, nDispatch, nStatus, ui, mutex>>

-----------------------------------------------------------------------------
(* The worker thread (patcher_thread_routine) *)

\* The worker takes the oldest command.  Quit ends the worker, which drops
\* the receiver; StartUpdate and ApplyPatch start an update lifecycle, which
\* calls set_patch_in_progress(true).
WorkerRecv ==
    /\ proc # "exited"
    /\ rxAlive
    /\ cmdQueue # <<>>
    /\ LET c == Head(cmdQueue) IN
       /\ received' = Append(received, c)
       /\ cmdQueue' = Tail(cmdQueue)
       /\ rxAlive' = (c # Quit)
       /\ worker' = IF c = Quit THEN "done"
                    ELSE IF c.cmd \in {"StartUpdate", "ApplyPatch"} THEN "updating"
                    ELSE worker
       /\ patching_in_progress' =
              IF c.cmd \in {"StartUpdate", "ApplyPatch"} /\ worker = "idle"
              THEN SetPatchInProgress(patching_in_progress, TRUE)
              ELSE patching_in_progress
    /\ UNCHANGED <<os, cwd, config, uiQueue, proc, cacheFile, last, sent,
                   evaluated, startsSinceCompletion, nDispatch, nStatus, ui, mutex>>

\* The worker reports a status through UiController::dispatch_patching_status:
\* one EvaluateScript is enqueued on the unbounded channel; once the closure
\* of the event loop, which owns ui_rx, was dropped the send answers Err and
\* the result is ignored.  A completion status ends the lifecycle, which
\* calls set_patch_in_progress(false).
WorkerStatus(status) ==
    /\ proc # "exited"
    /\ worker = "updating"
    /\ nStatus < MaxStatus
    /\ uiQueue' = IF proc = "dropped" THEN uiQueue
                  ELSE Append(uiQueue, EvaluateScript(Script(status)))
    /\ nStatus' = nStatus + 1
    /\ IF IsCompletion(status)
       THEN /\ worker' = "idle"
            /\ startsSinceCompletion' = 0
            /\ patching_in_progress' = SetPatchInProgress(patching_in_progress, FALSE)
       ELSE UNCHANGED <<worker, startsSinceCompletion, patching_in_progress>>
    /\ UNCHANGED <<os, cwd, config, cmdQueue, rxAlive, proc, cacheFile, last,
                   sent, received, evaluated, nDispatch, ui, mutex>>

WorkerReport == \E status \in Statuses : WorkerStatus(status)

\* new_patching_thread: when the tokio runtime cannot be built the thread
\* returns before patcher_thread_routine starts, and rx is dropped with it.
WorkerFails ==
    /\ proc # "exited"
    /\ rxAlive
    /\ worker = "idle"
    /\ received = <<>>
    /\ rxAlive' = FALSE
    /\ worker' = "done"
    /\ UNCHANGED <<os, cwd, config, patching_in_progress, cmdQueue, uiQueue,
                   proc, cacheFile, last, sent, received, evaluated,
                   startsSinceCompletion, nDispatch, nStatus, ui, mutex>>

-----------------------------------------------------------------------------

Next ==
    \/ DispatchMessage
    \/ WindowEvent
    \/ DropUserData
    \/ ProcessExit
    \/ WorkerRecv
    \/ WorkerReport
    \/ WorkerFails

Spec == Init /\ [][Next]_vars

-----------------------------------------------------------------------------
(* The handlers as functions of the session state: handle_message applied   *)
(* under either value of the busy flag.  No code sets the flag, so the runs *)
(* of Spec only meet busy = false; here the flag is an input.               *)

InitSession ==
    /\ os \in {"windows", "unix"}
    /\ cwd \in (IF os = "windows" THEN WorkingDirs ELSE {Ok(cwd_unix)})
    /\ config \in Configs
    /\ patching_in_progress \in BOOLEAN
    /\ cmdQueue = <<>>
    /\ rxAlive = TRUE
    /\ uiQueue = <<>>
    /\ proc = "running"
    /\ cacheFile \in BOOLEAN
    /\ worker = "idle"
    /\ last = Observed("init", "", <<>>, NoEffect, <<>>)
    /\ sent = <<>>
    /\ received = <<>>
    /\ evaluated = <<>>
    /\ startsSinceCompletion = 0
    /\ nDispatch = 0
    /\ nStatus = 0
    /\ ui = Idle
    /\ mutex = FALSE

NextSession == DispatchMessage

SpecSession == InitSession /\ [][NextSession]_vars

-----------------------------------------------------------------------------
(* The UI thread step by step.  Dispatch and LoopIteration above run a      *)
(* handler to its end in one step; here the points where a handler can wait *)
(* are states of their own: the file dialog, the process launcher and the   *)
(* send on the bounded commands channel.  `mutex` follows the MutexGuard of *)
(* each handler: handle_start_update, handle_cancel_update and              *)
(* handle_manual_patch bind it with `let data = ...` and keep it to the end *)
(* of the function; the close path keeps its temporary guard to the end of  *)
(* the send statement; the launch handlers drop it before start_executable. *)

\* The messages dispatched step by step.
ThreadMessages ==
    {"play", "setup", "repair", "exit", "start_update", "cancel_update",
     "manual_patch", msg_login_alice}

\* How many commands the channel holds when the step-by-step runs start.
Prefills == {0, Capacity - 1, Capacity}

RECURSIVE Repeat(_, _)
Repeat(c, n) == IF n = 0 THEN <<>> ELSE <<c>> \o Repeat(c, n - 1)

\* `cancel_update` was dispatched k times and the worker has not taken
\* anything yet: the channel holds k CancelUpdate commands.
SubmittedBefore == {Repeat(CancelUpdate, k) : k \in Prefills}

InitThreads ==
    /\ \E queue \in SubmittedBefore : InitAfter(queue)
    /\ os = "windows"
    /\ cwd = Ok(cwd_game)
    /\ config \in Configs
    /\ cacheFile = FALSE

\* The handler, or the close path, returns: its effect takes place, the
\* guard is dropped.
Return(op, message, eff, proc_after) ==
    LET submitted == Accepted(eff.commands) IN
    /\ cmdQueue' = SendAll(cmdQueue, submitted)
    /\ sent' = sent \o submitted
    /\ startsSinceCompletion' = startsSinceCompletion + CountStarts(submitted)
    /\ cacheFile' = (cacheFile /\ ~eff.removes)
    /\ proc' = IF eff.exits THEN "exited" ELSE proc_after
    /\ last' = Observed(op, message, <<>>, eff, submitted)
    /\ ui' = Idle
    /\ mutex' = FALSE

\* handle_message(message) starts and runs to the first point where it can
\* wait, or to its end when there is none.
Enter(message) ==
    /\ proc = "running"
    /\ ui.at = "idle"
    /\ nDispatch < MaxDispatch
    /\ nDispatch' = nDispatch + 1
    /\ LET plan == HandleMessage(message, EnvBase) IN
       IF plan.dialog
       THEN \* handle_manual_patch: tfd::open_file_dialog under the guard
            /\ ui' = [at |-> "dialog", msg |-> message, eff |-> plan]
            /\ mutex' = TRUE
            /\ UNCHANGED <<cmdQueue, sent, startsSinceCompletion, cacheFile,
                           proc, last>>
       ELSE IF plan.launched # <<>>
       THEN \* the fields are cloned, the guard is dropped, start_executable
            /\ ui' = [at |-> "launch", msg |-> message, eff |-> plan]
            /\ mutex' = FALSE
            /\ UNCHANGED <<cmdQueue, sent, startsSinceCompletion, cacheFile,
                           proc, last>>
       ELSE IF plan.commands # <<>>
       THEN \* handle_start_update, handle_cancel_update: send under the guard
            /\ ui' = [at |-> "send", msg |-> message, eff |-> plan]
            /\ mutex' = TRUE
            /\ UNCHANGED <<cmdQueue, sent, startsSinceCompletion, cacheFile,
                           proc, last>>
       ELSE \E env \in EnvFor(message) :
                Return("dispatch", message, HandleMessage(message, env), proc)
    /\ UNCHANGED <<os, cwd, config, patching_in_progress, rxAlive, uiQueue,
                   worker, received, evaluated, nStatus>>

EnterMessage == \E message \in ThreadMessages : Enter(message)

\* tfd::open_file_dialog returns: with a path the handler goes on to send
\* ApplyPatch, still under the guard; without one it returns.
DialogCloses ==
    /\ ui.at = "dialog"
    /\ \E env \in EnvFor(ui.msg) :
          LET eff == HandleMessage(ui.msg, env) IN
          IF eff.commands # <<>>
          THEN /\ ui' = [at |-> "send", msg |-> ui.msg, eff |-> eff]
               /\ UNCHANGED <<mutex, cmdQueue, sent, startsSinceCompletion,
                              cacheFile, proc, last>>
          ELSE Return("dispatch", ui.msg, eff, proc)
    /\ UNCHANGED <<os, cwd, config, patching_in_progress, rxAlive, uiQueue,
                   worker, received, evaluated, nDispatch, nStatus>>

\* start_executable returns and the launch handler ends.
LaunchReturns ==
    /\ ui.at = "launch"
    /\ \E env \in EnvFor(ui.msg) :
          Return("dispatch", ui.msg, HandleMessage(ui.msg, env), proc)
    /\ UNCHANGED <<os, cwd, config, patching_in_progress, rxAlive, uiQueue,
                   worker, received, evaluated, nDispatch, nStatus>>

\* The closure of event_loop.run meets CloseRequested: the pending UI
\* updates are evaluated, the mutex is locked and send(Quit) is called.
CloseRequested ==
    /\ proc = "running"
    /\ ui.at = "idle"
    /\ evaluated' = evaluated \o DrainAll(uiQueue)
    /\ uiQueue' = <<>>
    /\ ui' = [at |-> "send", msg |-> "close",
              eff |-> [Guarded EXCEPT !.commands = <<Quit>>]]
    /\ mutex' = TRUE
    /\ UNCHANGED <<os, cwd, config, patching_in_progress, cmdQueue, rxAlive,
                   proc, cacheFile, worker, last, sent, received,
                   startsSinceCompletion, nDispatch, nStatus>>

\* Sender::send returns: Ok once the channel has room, Err once the receiver
\* is gone.  The close path then sets ControlFlow::Exit.
SendReturns ==
    /\ ui.at = "send"
    /\ CanSend
    /\ IF ui.msg = "close"
       THEN Return("close", "", ui.eff, "loop_exit")
       ELSE Return("dispatch", ui.msg, ui.eff, proc)
    /\ UNCHANGED <<os, cwd, config, patching_in_progress, rxAlive, uiQueue,
                   worker, received, evaluated, nDispatch, nStatus>>

NextThreads ==
    \/ EnterMessage
    \/ DialogCloses
    \/ LaunchReturns
    \/ CloseRequested
    \/ SendReturns
    \/ DropUserData
    \/ ProcessExit
    \/ WorkerRecv
    \/ WorkerFails

\* A send that can return does return: the UI thread is never starved.  The
\* worker gets no such promise, it may stall.
SpecThreads == InitThreads /\ [][NextThreads]_vars /\ WF_vars(SendReturns)

-----------------------------------------------------------------------------
(* The launcher functions of process.rs applied to every path of            *)
(* LaunchPaths, under every answer of current_dir() and of the OS.          *)

FixedConfig ==
    [play |-> Section(client_exe, <<>>, None),
     setup |-> Section(setup_exe, <<"/s">>, None),
     repair |-> None]

InitLaunch ==
    /\ InitCommon
    /\ cwd \in (IF os = "windows" THEN LaunchWorkingDirs ELSE {Ok(cwd_unix)})
    /\ config = FixedConfig
    /\ cacheFile = FALSE

\* The observation of one launcher function applied to `path`; `arguments`
\* is the argument list (start_executable) or the parameter string (the two
\* win32 functions), `accept` the answer the OS gives if it is asked.
Applied(op, path, arguments, accept, out) ==
    Observed(op, "", path,
             [NoEffect EXCEPT
                !.launched = <<[path |-> path, arguments |-> arguments,
                                answer |-> accept, result |-> out.result]>>,
                !.calls = out.calls],
             <<>>)

LaunchFrame ==
    UNCHANGED <<os, cwd, config, patching_in_progress, cmdQueue, rxAlive,
                uiQueue, proc, cacheFile, worker, sent, received, evaluated,
                startsSinceCompletion, nDispatch, nStatus, ui, mutex>>

CallStartExecutable ==
    \E path \in LaunchPaths, arguments \in ArgumentLists, accept \in BOOLEAN :
        /\ last' = Applied("start_executable", path, arguments, accept,
                           StartExecutable(path, arguments, accept))
        /\ LaunchFrame

CallWin32SpawnProcessOpen ==
    \E path \in LaunchPaths, arguments \in ArgumentLists, accept \in BOOLEAN :
        /\ os = "windows"
        /\ last' = Applied("win32_spawn_process_open", path,
                           FoldArguments(arguments), accept,
                           Win32SpawnProcessOpen(path, FoldArguments(arguments),
                                                 accept))
        /\ LaunchFrame

CallWin32SpawnProcessRunas ==
    \E path \in LaunchPaths, arguments \in ArgumentLists, accept \in BOOLEAN :
        /\ os = "windows"
        /\ last' = Applied("win32_spawn_process_runas", path,
                           FoldArguments(arguments), accept,
                           Win32SpawnProcessRunas(path, FoldArguments(arguments),
                                                  accept))
        /\ LaunchFrame

NextLaunch ==
    \/ CallStartExecutable
    \/ CallWin32SpawnProcessOpen
    \/ CallWin32SpawnProcessRunas

SpecLaunch == InitLaunch /\ [][NextLaunch]_vars

-----------------------------------------------------------------------------
(* Properties *)

\* A step of the UI thread that dispatches one message.
DispatchStep == nDispatch' = nDispatch + 1

DispatchedLast(message) == last.op = "dispatch" /\ last.msg = message

\* C1: FIFO law of the commands channel.  The commands whose send returned
\* Ok are, in submission order, exactly the commands the worker has received
\* followed by the commands still in the channel: nothing is reordered,
\* duplicated or lost on the way to the worker.
C1_FifoLaw == sent = received \o cmdQueue

\* C1, witness: the worker has received two different commands in the order
\* they were submitted while a third one waits in the channel.
C1_Witness ==
    /\ received = <<StartUpdate, CancelUpdate>>
    /\ cmdQueue = <<Quit>>
    /\ sent = <<StartUpdate, CancelUpdate, Quit>>

\* C2: idempotent busy-guard.  Between two completion statuses at most one
\* StartUpdate is submitted, however many times start_update is dispatched.
C2_IdempotentBusyGuard == startsSinceCompletion <= 1

\* C3: at most one update lifecycle.  Once a StartUpdate has been submitted
\* and no completion status has followed, a start_update or manual_patch
\* dispatch opens no dialog and hands no command to the channel.
C3_OneLifecycle ==
    [][(/\ DispatchStep
        /\ last'.msg \in {"start_update", "manual_patch"}
        /\ startsSinceCompletion >= 1)
       => (last'.commands = <<>> /\ ~last'.dialog)]_vars

MalformedMessages == {msg_word, msg_truncated}

\* C4: a message that is neither a vocabulary token nor well-formed JSON is
\* dropped: the process keeps running, no command is handed to the channel,
\* no launcher or opener is called, no dialog is opened, and the
\* configuration, the commands channel, the busy flag and the cache file are
\* left as they were.
C4_MalformedDropped ==
    [][(DispatchStep /\ last'.msg \in MalformedMessages)
       => (/\ ~last'.exits
           /\ proc' = proc
           /\ last'.commands = <<>>
           /\ last'.launched = <<>>
           /\ last'.calls = <<>>
           /\ last'.opened = <<>>
           /\ ~last'.dialog
           /\ UNCHANGED <<config, patching_in_progress, cmdQueue, rxAlive,
                          sent, cacheFile>>)]_vars

\* C4, witness: a malformed message was dispatched while a command was
\* waiting in the channel, and the process is still running.
C4_Witness ==
    /\ DispatchedLast(msg_truncated)
    /\ cmdQueue = <<StartUpdate>>
    /\ proc = "running"

ParsedInvalidMessages ==
    {msg_number, msg_no_function, msg_function_number, msg_unknown,
     msg_login_no_params, msg_login_no_password, msg_login_bad_type,
     msg_open_url_no_params}

\* C5: a message that parses as JSON but is not a valid request logs an
\* error and is dropped: no launcher call, no command, no termination.
C5_DecodeErrorLogged ==
    (last.op = "dispatch" /\ last.msg \in ParsedInvalidMessages)
    => (/\ "error" \in Range(last.logs)
        /\ last.launched = <<>>
        /\ last.commands = <<>>
        /\ ~last.exits)

\* C6: dispatching play calls the launcher exactly once, with the configured
\* play.path and the configured play.arguments in their order.
C6_PlayLaunch ==
    DispatchedLast("play")
    => (/\ Len(last.launched) = 1
        /\ last.launched[1].path = config.play.path
        /\ last.launched[1].arguments = config.play.arguments)

\* C6, witness: play was dispatched under a configuration with two arguments.
C6_Witness ==
    /\ DispatchedLast("play")
    /\ config.play.path = client_exe
    /\ last.launched[1].arguments = <<"-x", "-w">>

\* The login and password each well-formed login request carries.
LoginOf(message) ==
    IF message = msg_login_alice
    THEN [login |-> "alice", password |-> "secret"]
    ELSE [login |-> "bob", password |-> ""]

\* C7: dispatching a login request {login: L, password: P} calls the launcher
\* once with play.path and the arguments "-t:" + P, L, "server" followed by
\* the configured play.arguments.
C7_LoginLaunch ==
    (last.op = "dispatch" /\ last.msg \in {msg_login_alice, msg_login_bob})
    => (/\ Len(last.launched) = 1
        /\ last.launched[1].path = config.play.path
        /\ last.launched[1].arguments =
               <<"-t:" \o LoginOf(last.msg).password, LoginOf(last.msg).login,
                 "server">> \o config.play.arguments)

\* C7, witness: the login of alice under play.arguments = <<"-w", "-x">>.
C7_Witness ==
    /\ DispatchedLast(msg_login_alice)
    /\ last.launched[1].arguments = <<"-t:secret", "alice", "server", "-w", "-x">>

\* The path ends in .bat or .cmd, in any letter case.
HasScriptExtension(path) ==
    /\ Len(path) >= 4
    /\ LET n == Len(path) IN
       /\ path[n - 3] = "."
       /\ \/ path[n - 2] \in {"b", "B"} /\ path[n - 1] \in {"a", "A"}
                                        /\ path[n] \in {"t", "T"}
          \/ path[n - 2] \in {"c", "C"} /\ path[n - 1] \in {"m", "M"}
                                        /\ path[n] \in {"d", "D"}

\* The path is cmd.exe, in any letter case.
IsCmdExeName(path) ==
    /\ Len(path) = 7
    /\ path[1] \in {"c", "C"} /\ path[2] \in {"m", "M"} /\ path[3] \in {"d", "D"}
    /\ path[4] = "."
    /\ path[5] \in {"e", "E"} /\ path[6] \in {"x", "X"} /\ path[7] \in {"e", "E"}

StartedOnWindows == last.op = "start_executable" /\ os = "windows"

C9_SystemCommandUnresolved ==
    (/\ os = "windows"
     /\ last.op \in {"start_executable", "win32_spawn_process_open",
                     "win32_spawn_process_runas"}
     /\ IsCmdExeName(last.input))
    => (/\ Len(last.calls) = 1
        /\ last.calls[1].file = last.input
        /\ last.calls[1].verb =
              IF last.op = "win32_spawn_process_open" THEN "open" ELSE "runas")

\* C9, witness: win32_spawn_process_open was handed CMD.EXE while the working
\* directory is unknown, and passed it on unchanged.
C9_Witness ==
    /\ last.op = "win32_spawn_process_open"
    /\ ~cwd.ok
    /\ last.input = CMD_EXE
    /\ last.calls[1].file = CMD_EXE

\* C10: reset_cache when the cache file does not exist reports no error or
\* warning, leaves the file system as it is and returns; when the file
\* exists it is deleted.
C10_ResetCacheMissing ==
    [][(DispatchStep /\ last'.msg = "reset_cache")
       => (/\ ~last'.exits
           /\ ~cacheFile => (last'.logs = <<>> /\ ~cacheFile')
           /\ cacheFile => ~cacheFile')]_vars

-----------------------------------------------------------------------------
(* The commands channel under load and the session mutex (SpecThreads) *)

\* A blocking send (a handler's or the close path's) returns in this step.
SendReturnStep == ui.at = "send" /\ ui'.at # "send"

\* The session state is dropped in this step.
DropStep == proc = "loop_exit" /\ proc' = "dropped"

C13_LockDiscipline ==
    mutex => ui.at \notin {"launch", "dialog", "send"}

\* C14: after CloseRequested the UI loop reaches its exit state in every
\* execution, whatever the worker does.
C14_CloseReachesExit ==
    (ui.at = "send" /\ ui.msg = "close") ~> (proc # "running")

-----------------------------------------------------------------------------
(* The UI-updates channel, exit, and the handlers (Spec, SpecSession) *)

\* The UI-updates channel keeps what it was given: updates are only added
\* at the back by a status event and only moved, all together and in order,
\* to the evaluated ones by a loop iteration; a status event can always be
\* dispatched, whatever is pending.
UiChannelStep ==
    /\ (worker = "updating" /\ proc # "exited" /\ nStatus < MaxStatus)
       => ENABLED WorkerReport
    /\ (nStatus' = nStatus + 1)
       => (/\ evaluated' = evaluated
           /\ \/ \E status \in Statuses :
                    uiQueue' = Append(uiQueue, EvaluateScript(Script(status)))
              \/ proc = "dropped" /\ uiQueue' = uiQueue)
    /\ (nStatus' = nStatus)
       => evaluated' \o uiQueue' = evaluated \o uiQueue
    /\ (evaluated' # evaluated \/ (proc = "running" /\ proc' = "loop_exit"))
       => (uiQueue' = <<>> /\ evaluated' = evaluated \o uiQueue)

\* C12 as stated: a status event puts exactly one EvaluateScript at the back
\* of the UI-updates channel and never waits; a loop iteration takes every
\* pending update and evaluates them in enqueue order; each update is
\* evaluated exactly once, so none is left when the process has ended.
C12_EvaluatedExactlyOnce ==
    [][/\ UiChannelStep
       /\ (nStatus' = nStatus + 1) => Len(uiQueue') = Len(uiQueue) + 1
       /\ (proc' = "exited") => uiQueue' = <<>>]_vars

\* C12, amended: a status event never waits and puts exactly one
\* EvaluateScript at the back of the UI-updates channel unless the receiver
\* was dropped with the event loop's closure; a loop iteration takes every
\* pending update and evaluates them in enqueue order; no update is
\* evaluated twice or out of order (one still pending when the loop exits
\* or the process ends is never evaluated).
C12_UiUpdatesChannel ==
    [][/\ UiChannelStep
       /\ (nStatus' = nStatus + 1 /\ proc # "dropped")
          => Len(uiQueue') = Len(uiQueue) + 1]_vars

\* C12, witness: two status events were pending together and one loop
\* iteration evaluated them in order.
C12_Witness ==
    /\ evaluated = <<EvaluateScript("patchingStatusDownloading(1, 2, 300)"),
                     EvaluateScript("patchingStatusReady()")>>
    /\ uiQueue = <<>>
    /\ nStatus = 2
    /\ proc = "running"

\* C15: `exit` ends the process at once and submits nothing, and no Quit
\* follows through the destructor, which only runs after the loop has
\* exited; the close path submits Quit before the loop exits.
C15_ExitAsymmetry ==
    [][/\ (DispatchStep /\ last'.msg = "exit")
          => (/\ proc' = "exited"
              /\ last'.commands = <<>>
              /\ sent' = sent
              /\ cmdQueue' = cmdQueue)
       /\ (proc = "exited") => (sent' = sent /\ cmdQueue' = cmdQueue)
       /\ (proc' = "dropped" /\ proc # "dropped") => proc = "loop_exit"
       /\ (proc = "running" /\ proc' = "loop_exit")
          => (/\ last'.commands = <<Quit>>
              /\ rxAlive => (/\ sent' = Append(sent, Quit)
                             /\ cmdQueue' = Append(cmdQueue, Quit)))]_vars

\* C15, witness: `exit` was dispatched while StartUpdate was waiting in the
\* channel; the process has ended and no Quit was ever submitted.
C15_Witness ==
    /\ proc = "exited"
    /\ last.msg = "exit"
    /\ cmdQueue = <<StartUpdate>>
    /\ sent = <<StartUpdate>>

LaunchMessages == {"play", "setup", "repair", msg_login_alice, msg_login_bob}

\* exit_on_success of the section that `message` launches, with its default.
ExitOnSuccess(message) ==
    CASE message = "setup" -> UnwrapOr(config.setup.exit_on_success, FALSE)
      [] message = "repair" -> UnwrapOr(config.repair.v.exit_on_success, FALSE)
      [] OTHER -> UnwrapOr(config.play.exit_on_success, TRUE)

\* C16: a launch handler ends the process exactly when the launcher returns
\* Ok(true) and exit_on_success (default true for play/login, false for
\* setup/repair) is set; otherwise the process keeps running, the session
\* state is unchanged and no command is submitted.
C16_TerminationRule ==
    [][(DispatchStep /\ last'.msg \in LaunchMessages /\ last'.launched # <<>>)
       => LET result == last'.launched[1].result IN
          /\ Len(last'.launched) = 1
          /\ last'.exits <=> (result.ok /\ result.v /\ ExitOnSuccess(last'.msg))
          /\ proc' = IF last'.exits THEN "exited" ELSE proc
          /\ last'.commands = <<>>
          /\ UNCHANGED <<config, patching_in_progress, cmdQueue, sent, rxAlive>>]_vars

\* C16, witness: setup without exit_on_success was launched with success and
\* the process keeps running.
C16_Witness ==
    /\ last.msg = "setup"
    /\ ~config.setup.exit_on_success.some
    /\ last.launched # <<>>
    /\ last.launched[1].result = Ok(TRUE)
    /\ proc = "running"

\* C17: `cancel_update` calls send(CancelUpdate) exactly once, whatever busy
\* is and whether or not an update was started, and changes neither busy
\* nor the configuration.
C17_CancelUnconditional ==
    [][(DispatchStep /\ last'.msg = "cancel_update")
       => (/\ last'.commands = <<CancelUpdate>>
           /\ rxAlive => (/\ last'.submitted = <<CancelUpdate>>
                          /\ cmdQueue' = Append(cmdQueue, CancelUpdate)
                          /\ sent' = Append(sent, CancelUpdate))
           /\ ~last'.exits
           /\ UNCHANGED <<patching_in_progress, config>>)]_vars

\* C17, witness: busy is set, no update was started, and cancel_update
\* submitted CancelUpdate.
C17_Witness ==
    /\ patching_in_progress
    /\ last.msg = "cancel_update"
    /\ startsSinceCompletion = 0
    /\ cmdQueue = <<CancelUpdate>>
    /\ sent = <<CancelUpdate>>

\* C18: `manual_patch` with busy false opens the dialog and submits exactly
\* ApplyPatch(path) when the dialog answers a path, nothing when it is
\* cancelled; with busy true it opens no dialog and submits nothing.
C18_ManualPatch ==
    [][(DispatchStep /\ last'.msg = "manual_patch")
       => (/\ IF patching_in_progress
              THEN ~last'.dialog /\ last'.commands = <<>>
              ELSE /\ last'.dialog
                   /\ last'.commands = IF last'.picked.some
                                       THEN <<ApplyPatch(last'.picked.v)>>
                                       ELSE <<>>
           /\ rxAlive => cmdQueue' = cmdQueue \o last'.commands)]_vars

\* C18, witness: busy is false, the dialog answered a.thor and
\* ApplyPatch(a.thor) is in the channel.
C18_Witness ==
    /\ ~patching_in_progress
    /\ last.msg = "manual_patch"
    /\ last.dialog
    /\ last.picked = Some("a.thor")
    /\ cmdQueue = <<ApplyPatch("a.thor")>>

\* C20: `repair` without a repair section logs an error and does nothing
\* else: no launch, no command, no exit, session state unchanged.
C20_RepairAbsent ==
    [][(DispatchStep /\ last'.msg = "repair" /\ ~config.repair.some)
       => (/\ "error" \in Range(last'.logs)
           /\ last'.launched = <<>>
           /\ last'.calls = <<>>
           /\ last'.commands = <<>>
           /\ ~last'.dialog
           /\ ~last'.exits
           /\ proc' = proc
           /\ UNCHANGED <<config, patching_in_progress, cmdQueue, sent,
                          rxAlive, cacheFile>>)]_vars

\* C20, witness: repair was dispatched under a configuration without a
\* repair section; two errors were logged and the process runs on.
C20_Witness ==
    /\ last.msg = "repair"
    /\ ~config.repair.some
    /\ last.logs = <<"error", "error">>
    /\ last.launched = <<>>
    /\ proc = "running"

-----------------------------------------------------------------------------
(* The launcher's result (SpecLaunch) *)

\* C21: on both targets start_executable answers Ok(true) when the OS
\* accepts the request and Ok(false) when the OS rejects it, and an error
\* only when the request never reached the OS; the OS's answer is never
\* turned into an error.
C21_LauncherResult ==
    (last.op = "start_executable")
    => LET call == last.launched[1] IN
       IF last.calls # <<>>
       THEN call.result = Ok(call.answer)
       ELSE ~call.result.ok

-----------------------------------------------------------------------------
(* The busy flag (Spec) *)

\* C22: patching_in_progress is false in every reachable state: it starts
\* false and no handler, status event, set_patch_in_progress call or
\* shutdown path writes it.
C22_BusyNeverSet == patching_in_progress = FALSE

\* C22, witness: the worker has taken StartUpdate and started the update,
\* which calls set_patch_in_progress(true), and the flag is still false.
C22_Witness ==
    /\ received = <<StartUpdate>>
    /\ worker = "updating"
    /\ last.msg = "start_update"
    /\ ~patching_in_progress

-----------------------------------------------------------------------------
(* The session mutex is not reentrant (Spec) *)

\* How many guards are alive after the first n events of `guards`.
RECURSIVE Held(_, _)
Held(guards, n) ==
    IF n = 0 THEN 0
    ELSE Held(guards, n - 1) + (IF guards[n] = "lock" THEN 1 ELSE -1)

\* C23: no handler and no close path locks the session mutex while it holds
\* a guard of it; play and login have dropped theirs when start_game_client
\* locks.
C23_NoSelfDeadlock ==
    \A n \in 1..Len(last.guards) :
        last.guards[n] = "lock" => Held(last.guards, n - 1) = 0

\* C23, witness: login locked, dropped its guard, and start_game_client
\* locked again before the client was launched.
C23_Witness ==
    /\ last.msg = msg_login_alice
    /\ last.guards = <<"lock", "drop", "lock", "drop">>
    /\ last.launched # <<>>

-----------------------------------------------------------------------------
(* The order inside one loop iteration (Spec) *)

\* C24: a loop iteration evaluates every pending UI update before it
\* handles its window event: when CloseRequested is handled, everything
\* that was enqueued before the iteration has been evaluated, in order,
\* when Quit is submitted and the loop exit is requested.
C24_DrainBeforeEvent ==
    [][/\ (evaluated' # evaluated)
          => (evaluated' = evaluated \o uiQueue /\ uiQueue' = <<>>)
       /\ (proc = "running" /\ proc' = "loop_exit")
          => (/\ last'.op = "close"
              /\ last'.input = uiQueue
              /\ evaluated' = evaluated \o uiQueue
              /\ uiQueue' = <<>>
              /\ last'.commands = <<Quit>>)]_vars

\* C24, witness: the iteration that met CloseRequested evaluated two
\* pending updates and then submitted Quit.
C24_Witness ==
    /\ proc = "loop_exit"
    /\ last.op = "close"
    /\ Len(last.input) = 2
    /\ evaluated = last.input
    /\ uiQueue = <<>>
    /\ last.submitted = <<Quit>>

=============================================================================
